---- MODULE Spec2Model ----
(***************************************************************************)
(* Model of internal/reflect/struct.go: the two struct marshaling engines  *)
(*   Struct      (decode: tftypes object value -> Go struct)               *)
(*   FromStruct  (encode: Go struct -> attr.Value)                         *)
(* One call runs at a time.  Every collaborator the engines call           *)
(* (BuildValue, FromValue, ToTerraformValue, Validate, ValueFromTerraform) *)
(* answers nondeterministically and is written to the log `calls`.         *)
(***************************************************************************)
EXTENDS Integers, Sequences, FiniteSets, TLC

VARIABLES
    op,           \* "decode" (Struct) or "encode" (FromStruct)
    round,        \* 1: a call on fresh inputs; 2: Struct on the value FromStruct returned
    pre,          \* which guard of Struct lines 34-70 the inputs trip ("ok": none)
    fields,       \* typeFields(T).list: the tagged names, in declaration order
    object,       \* objectFields: attribute name -> dynamic value (Struct's source)
    attrTypes,    \* typ.AttributeTypes(): name -> declared type, possibly nil
    val,          \* the struct value given to FromStruct: name -> native value
    hasValidate,  \* typ implements xattr.TypeWithValidate
    cancelled,    \* ctx has been cancelled
    cancelI,      \* loop index at which ctx was cancelled, 0 while it is not
    pc,           \* "start", "reconcile", "loop", "done", "abort"
    i,            \* index into fields of the next loop iteration
    diags,        \* the diag.Diagnostics the call accumulates / returns
    result,       \* Struct: the new struct being filled (line 110)
    objTypes,     \* FromStruct: objTypes map (line 143)
    objValues,    \* FromStruct: objValues map (line 144)
    ret,          \* the value the call returned (NoRet while running)
    calls         \* log of collaborator invocations, in order

vars == <<op, round, pre, fields, object, attrTypes, val, hasValidate, cancelled,
          cancelI, pc, i, diags, result, objTypes, objValues, ret, calls>>

----------------------------------------------------------------------------
(* Bounds *)

\* how many attribute / tag names exist
NumNames == 2
\* longest struct (number of tagged fields)
MaxFields == 2
\* native field values are 1..MaxVal
MaxVal == 2

AllNames == <<"a", "b", "c", "d">>
Names == {AllNames[k] : k \in 1..NumNames}
Values == 1..MaxVal

----------------------------------------------------------------------------
(* Values of the dynamic type system and the dispatcher, seen at their interface *)

NilType == "nil"
AttrType == "type"
\* a returned / held value: which object it is, its field or attribute values,
\* and (for an object value) its attribute types
RV(id, fv, types) == [id |-> id, fv |-> fv, types |-> types]
\* no value returned yet
NoRet == RV("running", <<>>, <<>>)
\* the nil attr.Value
Nil == RV("nil", <<>>, <<>>)
RootPath == <<>>

Range(s) == {s[k] : k \in DOMAIN s}

\* what FromValue followed by ToTerraformValue makes of a native value
Enc(v) == v + MaxVal
\* what BuildValue makes of a dynamic value
Dec(d) == d - MaxVal
DynValues == {Enc(v) : v \in Values}

\* path.AtName
AtName(p, name) == Append(p, name)

\* a diagnostic: severity, what produced it, the path it is attributed to, and
\* for the struct/object mismatch the two name sets it lists
Diag(sev, kind, p, so, oo) ==
    [sev |-> sev, kind |-> kind, path |-> p, structOnly |-> so, objectOnly |-> oo]

\* diag.Diagnostics.HasError
HasError(d) == \E k \in DOMAIN d : d[k].sev = "error"

\* diag.Diagnostics.Append
DiagsAppend(d, more) == d \o more

\* the diagnostics a collaborator call yields: one per reported severity
Reported(fn, out, p) == [k \in DOMAIN out |-> Diag(out[k], fn, p, {}, {})]

\* what a dispatcher call may report: nothing, a warning, an error, or both
FieldOutcomes == {<<>>, <<"warning">>, <<"error">>, <<"warning", "error">>}
\* what the validation hook may report
ValidateOutcomes == {<<>>, <<"warning">>, <<"error">>}
\* what a call returning a Go error may report
ErrOutcomes == {<<>>, <<"error">>}

Call(fn, name, typ, p, phase, out) ==
    [fn |-> fn, name |-> name, typ |-> typ, path |-> p, phase |-> phase,
     ctx |-> cancelled, out |-> out]

----------------------------------------------------------------------------
(* Inputs *)

\* typeFields: the tagged names of a struct type, unique, in declaration order
FieldLists ==
    UNION {{s \in [1..n -> Names] : \A x, y \in 1..n : x # y => s[x] # s[y]} :
              n \in 0..MaxFields}

\* attr.TypeWithAttributeTypes.AttributeTypes: a map whose entries may be nil
AttrDirs == UNION {[S -> {AttrType, NilType}] : S \in SUBSET Names}

\* the map object.As fills: a known object's attributes, or none for a null object
ObjectMaps == UNION {[S -> DynValues] : S \in SUBSET Names}

Preconditions == {"ok", "notStruct", "notObject", "noAttrTypes", "asError"}

\* reflect.Value: the caller's target, and the struct reflect.New allocates
Target == RV("target", [n \in Range(fields) |-> 0], <<>>)
NewStruct == RV("new", [n \in Range(fields) |-> 0], <<>>)

Init ==
    /\ op \in {"decode", "encode"}
    /\ round = 1
    /\ fields \in FieldLists
    /\ attrTypes \in AttrDirs
    /\ IF op = "decode"
       THEN /\ pre \in Preconditions
            /\ object \in ObjectMaps
            \* a target that is no struct has no tagged fields, a value that is
            \* no known object has no attribute map, a typ that is no
            \* TypeWithAttributeTypes has no directory
            /\ pre = "notStruct" => fields = <<>>
            /\ pre \in {"notObject", "asError"} => object = <<>>
            /\ pre = "noAttrTypes" => attrTypes = <<>>
            /\ val = <<>>
            /\ hasValidate = FALSE
       ELSE /\ pre = "ok"
            /\ object = <<>>
            /\ val \in [Range(fields) -> Values]
            /\ hasValidate \in BOOLEAN
    /\ cancelled = FALSE
    /\ cancelI = 0
    /\ pc = "start"
    /\ i = 0
    /\ diags = <<>>
    /\ result = NoRet
    /\ objTypes = <<>>
    /\ objValues = <<>>
    /\ ret = NoRet
    /\ calls = <<>>

----------------------------------------------------------------------------
(* Struct *)

\* lines 34-70: the four guards before the field maps are compared
DecodePreconditions ==
    /\ op = "decode" /\ pc = "start"
    /\ IF pre = "ok"
       THEN /\ pc' = "reconcile"
            /\ UNCHANGED <<diags, ret>>
       ELSE /\ diags' = DiagsAppend(diags, <<Diag("error", pre, RootPath, {}, {})>>)
            /\ ret' = Target
            /\ pc' = "abort"
    /\ UNCHANGED <<op, round, pre, fields, object, attrTypes, val, hasValidate,
                   cancelled, cancelI, i, result, objTypes, objValues, calls>>

\* lines 80-84
ObjectMissing(targetNames, objectNames) == targetNames \ objectNames

\* variant: the object's names are never compared against the tags
TargetMissingNone(targetNames, objectNames) == {}
\* lines 85-89
TargetMissing(targetNames, objectNames) == objectNames \ targetNames

\* lines 74-110
DecodeReconcile ==
    /\ op = "decode" /\ pc = "reconcile"
    /\ LET objectMissing == ObjectMissing(Range(fields), DOMAIN object)
           targetMissing == TargetMissing(Range(fields), DOMAIN object)
       IN  IF objectMissing # {} \/ targetMissing # {}
           THEN /\ diags' = DiagsAppend(diags,
                       <<Diag("error", "mismatch", RootPath, objectMissing, targetMissing)>>)
                /\ ret' = Target
                /\ pc' = "abort"
                /\ UNCHANGED <<result, i>>
           ELSE /\ result' = NewStruct
                /\ i' = 1
                /\ pc' = "loop"
                /\ UNCHANGED <<diags, ret>>
    /\ UNCHANGED <<op, round, pre, fields, object, attrTypes, val, hasValidate,
                   cancelled, cancelI, objTypes, objValues, calls>>

\* variant: the field's diagnostics replace the collected ones
FieldDiagsOnly(d, fieldValDiags) == fieldValDiags
\* line 124
AppendFieldDiags(d, fieldValDiags) == DiagsAppend(d, fieldValDiags)

\* variant: the loop stops on any diagnostic, warnings included
StructFieldFailedOnAny(d) == d # <<>>
\* variant: the loop also stops once ctx is cancelled
StructFieldFailedOrCancelled(d) == HasError(d) \/ cancelled
\* lines 126-128
StructFieldFailed(d) == HasError(d)

\* variant: the converted value is not stored
SetNothing(rv, name, v) == rv
\* line 129
SetField(rv, name, v) == [rv EXCEPT !.fv[name] = v]

\* lines 111-130: one iteration of the field loop
DecodeField ==
    /\ op = "decode" /\ pc = "loop" /\ i <= Len(fields)
    /\ LET name == fields[i]
           p == AtName(RootPath, name)
       IN  IF name \notin DOMAIN attrTypes
           THEN /\ diags' = DiagsAppend(diags,
                       <<Diag("error", "noTypeInfo", RootPath, {}, {})>>)
                /\ ret' = Target
                /\ pc' = "abort"
                /\ UNCHANGED <<i, result, calls>>
           ELSE \E out \in FieldOutcomes :
                /\ calls' = Append(calls,
                       Call("BuildValue", name, attrTypes[name], p, "loop", out))
                /\ diags' = AppendFieldDiags(diags, Reported("BuildValue", out, p))
                /\ IF StructFieldFailed(diags')
                   THEN /\ ret' = Target
                        /\ pc' = "abort"
                        /\ UNCHANGED <<i, result>>
                   ELSE /\ result' = SetField(result, name, Dec(object[name]))
                        /\ i' = i + 1
                        /\ UNCHANGED <<ret, pc>>
    /\ UNCHANGED <<op, round, pre, fields, object, attrTypes, val, hasValidate,
                   cancelled, cancelI, objTypes, objValues>>

\* line 131
DecodeReturn ==
    /\ op = "decode" /\ pc = "loop" /\ i > Len(fields)
    /\ ret' = result
    /\ pc' = "done"
    /\ UNCHANGED <<op, round, pre, fields, object, attrTypes, val, hasValidate,
                   cancelled, cancelI, i, diags, result, objTypes, objValues, calls>>

----------------------------------------------------------------------------
(* FromStruct *)

\* line 155, 162: indexing the attrTypes map; a missing key reads as nil
AttributeType(dir, name) == IF name \in DOMAIN dir THEN dir[name] ELSE NilType

\* attr.Type.TerraformType
TerraformType(t) == "tftype"

\* lines 142-150
EncodeStart ==
    /\ op = "encode" /\ pc = "start"
    /\ objTypes' = <<>>
    /\ objValues' = <<>>
    /\ i' = 1
    /\ pc' = "loop"
    /\ UNCHANGED <<op, round, pre, fields, object, attrTypes, val, hasValidate,
                   cancelled, cancelI, diags, result, ret, calls>>

\* variant: the loop goes on after an error
FromStructFieldFailedNever(d) == FALSE
\* lines 158-160
FromStructFieldFailed(d) == HasError(d)

\* line 163
TypeNotFound(dir, name) == name \notin DOMAIN dir \/ dir[name] = NilType

\* lines 173, 188: m[name] = v
MapPut(m, name, v) == [n \in DOMAIN m \cup {name} |-> IF n = name THEN v ELSE m[n]]

\* lines 151-189: one iteration of the field loop
EncodeField ==
    /\ op = "encode" /\ pc = "loop" /\ i <= Len(fields)
    /\ LET name == fields[i]
           p == AtName(RootPath, name)
           typ == AttributeType(attrTypes, name)
       IN  \E out \in FieldOutcomes, tfOut \in ErrOutcomes, vOut \in ValidateOutcomes :
           LET cFrom == Call("FromValue", name, typ, p, "loop", out)
               cToTf == Call("ToTerraformValue", name, typ, p, "loop", tfOut)
               cVal == Call("Validate", name, typ, p, "loop", vOut)
               d1 == DiagsAppend(diags, Reported("FromValue", out, p))
               d2 == DiagsAppend(d1, Reported("Validate", vOut, p))
           IN  IF FromStructFieldFailed(d1)
               THEN \* lines 158-160
                    /\ tfOut = <<>> /\ vOut = <<>>
                    /\ calls' = calls \o <<cFrom>>
                    /\ diags' = d1
                    /\ ret' = Nil /\ pc' = "abort"
                    /\ UNCHANGED <<i, objTypes, objValues>>
               ELSE IF TypeNotFound(attrTypes, name)
               THEN \* lines 162-171
                    /\ tfOut = <<>> /\ vOut = <<>>
                    /\ calls' = calls \o <<cFrom>>
                    /\ diags' = d1 \o <<Diag("error", "missingType", p, {}, {})>>
                    /\ ret' = Nil /\ pc' = "abort"
                    /\ UNCHANGED <<i, objTypes, objValues>>
               ELSE IF tfOut # <<>>
               THEN \* lines 173-178
                    /\ vOut = <<>>
                    /\ calls' = calls \o <<cFrom, cToTf>>
                    /\ objTypes' = MapPut(objTypes, name, TerraformType(typ))
                    /\ diags' = d1 \o Reported("ToTerraformValue", tfOut, p)
                    /\ ret' = Nil /\ pc' = "abort"
                    /\ UNCHANGED <<i, objValues>>
               ELSE IF hasValidate
               THEN \* lines 180-188
                    /\ calls' = calls \o <<cFrom, cToTf, cVal>>
                    /\ objTypes' = MapPut(objTypes, name, TerraformType(typ))
                    /\ diags' = d2
                    /\ IF HasError(d2)
                       THEN /\ ret' = Nil /\ pc' = "abort"
                            /\ UNCHANGED <<i, objValues>>
                       ELSE /\ objValues' = MapPut(objValues, name, Enc(val[name]))
                            /\ i' = i + 1
                            /\ UNCHANGED <<ret, pc>>
               ELSE \* line 188
                    /\ vOut = <<>>
                    /\ calls' = calls \o <<cFrom, cToTf>>
                    /\ objTypes' = MapPut(objTypes, name, TerraformType(typ))
                    /\ diags' = d1
                    /\ objValues' = MapPut(objValues, name, Enc(val[name]))
                    /\ i' = i + 1
                    /\ UNCHANGED <<ret, pc>>
    /\ UNCHANGED <<op, round, pre, fields, object, attrTypes, val, hasValidate,
                   cancelled, cancelI, result>>

\* lines 191-209: build the object value, validate it, reconstruct it
EncodeAssemble ==
    /\ op = "encode" /\ pc = "loop" /\ i > Len(fields)
    /\ \E vOut \in ValidateOutcomes, rOut \in ErrOutcomes :
       LET cVal == Call("Validate", "", AttrType, RootPath, "assemble", vOut)
           cRec == Call("ValueFromTerraform", "", AttrType, RootPath, "assemble", rOut)
           d1 == IF hasValidate
                 THEN DiagsAppend(diags, Reported("Validate", vOut, RootPath))
                 ELSE diags
           made == IF hasValidate THEN <<cVal>> ELSE <<>>
       IN  /\ ~hasValidate => vOut = <<>>
           /\ IF hasValidate /\ HasError(d1)
              THEN \* lines 198-200
                   /\ rOut = <<>>
                   /\ calls' = calls \o made
                   /\ diags' = d1
                   /\ ret' = Nil /\ pc' = "abort"
              ELSE IF rOut # <<>>
              THEN \* lines 205-207
                   /\ calls' = calls \o made \o <<cRec>>
                   /\ diags' = d1 \o Reported("ValueFromTerraform", rOut, RootPath)
                   /\ ret' = Nil /\ pc' = "abort"
              ELSE \* line 209
                   /\ calls' = calls \o made \o <<cRec>>
                   /\ diags' = d1
                   /\ ret' = RV("value", objValues, objTypes)
                   /\ pc' = "done"
    /\ UNCHANGED <<op, round, pre, fields, object, attrTypes, val, hasValidate,
                   cancelled, cancelI, i, result, objTypes, objValues>>

----------------------------------------------------------------------------
(* Environment *)

\* the caller cancels ctx while the field loop has a field left to convert
Cancel ==
    /\ pc = "loop" /\ i <= Len(fields)
    /\ ~cancelled
    /\ cancelled' = TRUE
    /\ cancelI' = i
    /\ UNCHANGED <<op, round, pre, fields, object, attrTypes, val, hasValidate,
                   pc, i, diags, result, objTypes, objValues, ret, calls>>

\* the caller hands the object FromStruct returned back to Struct, with the same
\* struct type and the same typ
DecodeEncoded ==
    /\ op = "encode" /\ pc = "done" /\ round = 1
    /\ op' = "decode"
    /\ round' = 2
    /\ pre' = "ok"
    /\ object' = ret.fv
    /\ cancelled' = FALSE
    /\ cancelI' = 0
    /\ pc' = "start"
    /\ i' = 0
    /\ diags' = <<>>
    /\ result' = NoRet
    /\ ret' = NoRet
    /\ calls' = <<>>
    /\ UNCHANGED <<fields, attrTypes, val, hasValidate, objTypes, objValues>>

Next ==
    \/ DecodePreconditions
    \/ DecodeReconcile
    \/ DecodeField
    \/ DecodeReturn
    \/ EncodeStart
    \/ EncodeField
    \/ EncodeAssemble
    \/ Cancel
    \/ DecodeEncoded

Spec == Init /\ [][Next]_vars

----------------------------------------------------------------------------
(* Vocabulary of the properties *)

Terminal == pc \in {"done", "abort"}
Converted == ret.id \in {"new", "value"}
NotConverted == IF op = "decode" THEN ret = Target ELSE ret = Nil
ReportsError(c) == "error" \in Range(c.out)
IsDispatcher(c) == c.fn \in {"BuildValue", "FromValue"}
DispatcherCalls == SelectSeq(calls, IsDispatcher)
NoCollaboratorError == \A k \in DOMAIN calls : ~ReportsError(calls[k])

\* every diagnostic the collaborators reported during the call, in order
RECURSIVE Emitted(_)
Emitted(cs) ==
    IF cs = <<>> THEN <<>>
    ELSE Reported(Head(cs).fn, Head(cs).out, Head(cs).path) \o Emitted(Tail(cs))

StructOnly == Range(fields) \ DOMAIN object
ObjectOnly == DOMAIN object \ Range(fields)

\* the attributes typ declares with a type
Declared == {n \in DOMAIN attrTypes : attrTypes[n] # NilType}

\* every tagged field has a declared, non-nil type and every declared type a field
Covered ==
    /\ Range(fields) = DOMAIN attrTypes
    /\ \A n \in DOMAIN attrTypes : attrTypes[n] # NilType

----------------------------------------------------------------------------
(* C1 *)

\* C1: in Struct, when the tagged names of the target differ from the names of
\* the object, BuildValue is never invoked and the call aborts with exactly one
\* diagnostic, the mismatch listing both the struct-only and the object-only
\* names, returning the original target.
C1_MismatchAborts ==
    (op = "decode" /\ pre = "ok" /\ Range(fields) # DOMAIN object) =>
        /\ calls = <<>>
        /\ pc \notin {"loop", "done"}
        /\ Terminal =>
             /\ pc = "abort"
             /\ diags = <<Diag("error", "mismatch", RootPath, StructOnly, ObjectOnly)>>
             /\ ret = Target

C1_Witness ==
    /\ op = "decode" /\ pc = "abort" /\ pre = "ok"
    /\ StructOnly # {} /\ ObjectOnly # {}
    /\ Len(diags) = 1 /\ diags[1].kind = "mismatch"

----------------------------------------------------------------------------
(* C2 *)

\* C2: when typ declares an attribute y that no tagged field carries (and, for
\* Struct, the object has exactly the declared attributes), the call fails and
\* an error diagnostic names y as defined by the object/attributes but not found
\* in the struct.
C2_ReverseSymmetry ==
    (/\ Terminal /\ pre = "ok"
     /\ op = "decode" => DOMAIN object = DOMAIN attrTypes
     /\ Declared \ Range(fields) # {}) =>
        /\ pc = "abort"
        /\ \A y \in Declared \ Range(fields) :
             \E k \in DOMAIN diags : diags[k].sev = "error" /\ y \in diags[k].objectOnly

----------------------------------------------------------------------------
(* C3 *)

\* C3: when the struct declares a tagged field x that typ does not declare (and,
\* for Struct, the object has exactly the declared attributes), the call returns
\* no converted value and an error diagnostic names x as a field the struct
\* defines but the object/attributes do not.
C3_Symmetry ==
    (/\ Terminal /\ pre = "ok"
     /\ op = "decode" => DOMAIN object = DOMAIN attrTypes
     /\ Range(fields) \ DOMAIN attrTypes # {}) =>
        /\ pc = "abort"
        /\ NotConverted
        /\ \A x \in Range(fields) \ DOMAIN attrTypes :
             \E k \in DOMAIN diags :
                /\ diags[k].sev = "error"
                /\ \/ x \in diags[k].structOnly
                   \/ diags[k].kind = "missingType" /\ diags[k].path = <<x>>

----------------------------------------------------------------------------
(* C4 *)

\* C4: in both engines the dispatcher is invoked on the fields in declaration
\* order, and once a dispatcher call reports an error no collaborator is
\* invoked after it: the call has ended without a converted value, returning
\* the diagnostics collected up to that point.
C4_FailFastPerField ==
    /\ Len(DispatcherCalls) <= Len(fields)
    /\ \A k \in DOMAIN DispatcherCalls : DispatcherCalls[k].name = fields[k]
    /\ \A k \in DOMAIN calls :
         (IsDispatcher(calls[k]) /\ ReportsError(calls[k])) =>
            /\ k = Len(calls)
            /\ pc = "abort"
            /\ NotConverted
            /\ diags = Emitted(calls)

C4_Witness ==
    /\ pc = "abort" /\ Len(fields) = 2
    /\ Len(DispatcherCalls) = 1
    /\ ReportsError(calls[Len(calls)]) /\ IsDispatcher(calls[Len(calls)])
    /\ calls[Len(calls)].name = fields[1]

----------------------------------------------------------------------------
(* C5 *)

\* C5: in FromStruct the validation hook is invoked only on the assembled object
\* value at the call's own path, after the field loop, and when it reports an
\* error ValueFromTerraform is never invoked.
C5_ValidateOnlyAssembled ==
    /\ \A k \in DOMAIN calls :
         calls[k].fn = "Validate" =>
            /\ calls[k].phase = "assemble"
            /\ calls[k].path = RootPath
            /\ i > Len(fields)
    /\ (\E k \in DOMAIN calls : calls[k].fn = "Validate" /\ ReportsError(calls[k])) =>
         \A k \in DOMAIN calls : calls[k].fn # "ValueFromTerraform"

----------------------------------------------------------------------------
(* C6 *)

\* ctx was cancelled inside the field loop with at least one field still to convert
CancelledMidLoop == cancelI >= 1 /\ cancelI <= Len(fields)

\* C6 as claimed: once ctx is cancelled inside the field loop the remaining
\* fields are not converted, the call never reaches done, and an abort carries a
\* cancellation diagnostic.
C6_CancelStopsLoop ==
    CancelledMidLoop =>
        /\ pc # "done"
        /\ Len(DispatcherCalls) < cancelI
        /\ pc = "abort" => \E k \in DOMAIN diags : diags[k].kind = "cancelled"

\* C6 as amended: the engines only hand ctx to their collaborators.  After a
\* cancellation inside the field loop the call aborts only on an error
\* diagnostic (a collaborator's, or a missing declared type); when no
\* collaborator reports an error and every field has a declared type, every
\* remaining field is converted and the call ends done with a converted value.
C6_CancelNotObserved ==
    CancelledMidLoop =>
        /\ \A k \in DOMAIN DispatcherCalls : k >= cancelI => DispatcherCalls[k].ctx
        /\ pc = "abort" =>
             /\ diags # <<>>
             /\ diags[Len(diags)].sev = "error"
             /\ diags[Len(diags)].kind \in
                  {"BuildValue", "FromValue", "ToTerraformValue", "Validate",
                   "ValueFromTerraform", "noTypeInfo", "missingType"}
        /\ (Terminal /\ NoCollaboratorError /\ Range(fields) \subseteq Declared) =>
             /\ pc = "done"
             /\ Converted
             /\ Len(DispatcherCalls) = Len(fields)

C6_Witness ==
    /\ pc = "done" /\ cancelI = 1 /\ Len(fields) = 2
    /\ Len(DispatcherCalls) = 2 /\ Converted

----------------------------------------------------------------------------
(* C7 *)

\* C7: when the tagged names equal the declared attribute names and no
\* collaborator reports an error, FromStruct succeeds with the object holding
\* the encoding of every field, and Struct on that object succeeds with a
\* struct equal to the original field for field; neither call returns an error
\* diagnostic.
C7_RoundTrip ==
    /\ (round = 1 /\ op = "encode" /\ Terminal /\ Covered /\ NoCollaboratorError) =>
         /\ pc = "done"
         /\ ~HasError(diags)
         /\ ret.id = "value"
         /\ ret.fv = [n \in Range(fields) |-> Enc(val[n])]
    /\ (round = 2 /\ Terminal /\ NoCollaboratorError) =>
         /\ pc = "done"
         /\ ~HasError(diags)
         /\ ret.id = "new"
         /\ ret.fv = val

C7_Witness ==
    /\ round = 2 /\ pc = "done" /\ Len(fields) = 2
    /\ ret.fv = val
    /\ val[fields[1]] # val[fields[2]]

----------------------------------------------------------------------------
(* C8 *)

\* C8: a call returns a converted value exactly when the diagnostics it returns
\* hold no error; warnings never abort, and a successful call returns every
\* diagnostic its collaborators reported, all warnings, in the order reported.
C8_HasErrorIsTheGate ==
    Terminal =>
        /\ Converted <=> ~HasError(diags)
        /\ Converted <=> pc = "done"
        /\ ~Converted => NotConverted
        /\ pc = "done" => diags = Emitted(calls)

C8_Witness ==
    /\ pc = "done" /\ Converted
    /\ Len(diags) >= 2
    /\ \A k \in DOMAIN diags : diags[k].sev = "warning"

----------------------------------------------------------------------------
(* C9 *)

\* Struct aborted because BuildValue reported an error for field z
FieldAbort ==
    /\ op = "decode" /\ pc = "abort" /\ calls # <<>>
    /\ ReportsError(calls[Len(calls)])

\* C9 as claimed: when the conversion of field z fails in Struct, the returned
\* diagnostics are exactly those reported for z.
C9_OnlyFailingFieldDiags ==
    FieldAbort =>
        LET z == calls[Len(calls)] IN diags = Reported("BuildValue", z.out, z.path)

\* C9 as amended: when the conversion of field z fails in Struct, the returned
\* diagnostics are the warnings reported for the fields converted before z, in
\* order, followed by the diagnostics reported for z, which are attributed to
\* the path of z and include an error.
C9_EarlierWarningsThenFailingField ==
    FieldAbort =>
        LET n == Len(calls)
            z == calls[n]
            before == Emitted(SubSeq(calls, 1, n - 1))
            own == Reported("BuildValue", z.out, z.path)
        IN  /\ diags = before \o own
            /\ \A k \in DOMAIN before : before[k].sev = "warning"
            /\ \A k \in DOMAIN own : own[k].path = <<z.name>>
            /\ HasError(own)
            /\ z.name = fields[n]

C9_Witness ==
    /\ FieldAbort /\ Len(calls) = 2
    /\ calls[1].out = <<"warning">>
    /\ Len(diags) >= 2 /\ diags[1].path = <<fields[1]>>

----------------------------------------------------------------------------
(* C10 *)

\* C10: the dispatcher is invoked for a field only when the field has a non-nil
\* entry in the attribute-type directory; a field without one aborts the call
\* with no dispatcher invocation for it.
C10_DispatcherGetsDeclaredType ==
    \A k \in DOMAIN calls :
        IsDispatcher(calls[k]) =>
            /\ calls[k].name \in DOMAIN attrTypes
            /\ calls[k].typ # NilType

====
